---- MODULE Spec2Model ----
(***************************************************************************)
(* Prompt graph traversal model of magic-promt (src/prompt_graph.py):      *)
(* PromptGraph.next_nodes, GraphContext.store_answer and default_graph,    *)
(* and of the stage list of the main window (src/ui/main_window.py).       *)
(*                                                                         *)
(* A Python dict is a function whose DOMAIN is its key set; where the      *)
(* insertion order of a dict matters it is kept beside it as a sequence of *)
(* keys.  Python's None is the distinguished value None below.  The stored *)
(* answer of a stage is always a mapping (Dict[str, str] in the source);   *)
(* the values of its fields are strings or None.                           *)
(***************************************************************************)
EXTENDS Integers, Sequences, FiniteSets, TLC

VARIABLES graph, context, last, calls, window, selected

vars == <<graph, context, last, calls, window, selected>>

\* Number of next_nodes / store_answer calls made in one session.
MaxCalls == 3

\* Number of stage selections the main window handles, the one made while
\* it is set up included.
MaxSelections == 4

\* Python's None (Optional fields, dict.get on a missing key).
None == "<None>"

\* The empty dict {}.
EmptyMap == [k \in {} |-> None]

\* dict.get(key, default)
dict_get(d, key, default) == IF key \in DOMAIN d THEN d[key] ELSE default

\* d[key] = value, every other entry kept.
dict_set(d, key, value) ==
    [k \in DOMAIN d \cup {key} |-> IF k = key THEN value ELSE d[k]]

\* str(n) for the small naturals a transform can produce.
str(n) == <<"0", "1", "2", "3", "4", "5", "6">>[n + 1]

\* bool(value) of a field value: None and the empty string are falsy.
truthy(value) == value # None /\ value # ""

(***************************************************************************)
(* Nodes, edges and graphs.                                                *)
(***************************************************************************)

\* Node(id, layer, prompt_template, collects, summary_key=None, transforms=[])
\* prompt_template is a Russian sentence in the source; it is kept here as
\* an ASCII tag naming it, since no operation reads it.
Node(id, layer, prompt_template, collects, summary_key, transforms) ==
    [id |-> id, layer |-> layer, prompt_template |-> prompt_template,
     collects |-> collects, summary_key |-> summary_key,
     transforms |-> transforms]

\* Edge(source, target, condition=None)
Edge(source, target, condition) ==
    [source |-> source, target |-> target, condition |-> condition]

\* PromptGraph(nodes, edges, entrypoint); node_order is the insertion order
\* of the nodes dict.
PromptGraph(nodes, node_order, edges, entrypoint) ==
    [nodes |-> nodes, node_order |-> node_order, edges |-> edges,
     entrypoint |-> entrypoint]

\* GraphContext(answers={}, preset=None)
GraphContext(answers, preset) == [answers |-> answers, preset |-> preset]

\* The two condition lambdas of default_graph, by name.
CameraIsNotNone == "technique_camera_is_not_None"
StyleIsNotNone == "style_answer_is_not_None"

\* Faulty variant: the truthiness of the camera field instead of `is not None`.
camera_is_truthy(ctx) ==
    truthy(dict_get(dict_get(ctx.answers, "technique:camera", EmptyMap),
                    "camera", None))

\* Faulty variant: the presence of the camera key instead of the test of
\* its value.
camera_key_present(ctx) ==
    "camera" \in DOMAIN dict_get(ctx.answers, "technique:camera", EmptyMap)

\* lambda ctx: ctx.answers.get("technique:camera", {}).get("camera") is not None
camera_is_not_None(ctx) ==
    dict_get(dict_get(ctx.answers, "technique:camera", EmptyMap),
             "camera", None) # None

\* Faulty variant: the truthiness of the stored answer (an empty dict is falsy)
\* instead of `is not None`.
style_is_truthy(ctx) ==
    dict_get(ctx.answers, "style:visual_language", EmptyMap) # EmptyMap

\* lambda ctx: ctx.answers.get("style:visual_language") is not None
\* (get yields None exactly when the key is missing: a stored answer is a
\* mapping, never None)
style_is_not_None(ctx) == "style:visual_language" \in DOMAIN ctx.answers

\* edge.condition(context)
eval_condition(condition, ctx) ==
    CASE condition = CameraIsNotNone -> camera_is_not_None(ctx)
      [] condition = StyleIsNotNone -> style_is_not_None(ctx)

\* nodes = {...} of default_graph
default_nodes ==
    [n \in {"idea:seed", "story:genre", "style:visual_language",
            "technique:camera", "delivery:export"} |->
       CASE n = "idea:seed" ->
              Node("idea:seed", "idea", "collect the initial idea",
                   <<"concept", "audience", "goal">>, "concept", <<>>)
         [] n = "story:genre" ->
              Node("story:genre", "story", "clarify genre and mood",
                   <<"genre", "mood", "key_elements">>, None, <<>>)
         [] n = "style:visual_language" ->
              Node("style:visual_language", "style",
                   "define the visual style",
                   <<"visual_style", "color_palette", "inspiration">>,
                   None, <<>>)
         [] n = "technique:camera" ->
              Node("technique:camera", "technique",
                   "set technical parameters",
                   <<"camera", "lens", "lighting">>, None, <<>>)
         [] n = "delivery:export" ->
              Node("delivery:export", "delivery",
                   "assemble the final prompt",
                   <<"prompt_ru", "prompt_en">>, None, <<>>)]

\* the insertion order of the keys of nodes
default_node_order ==
    <<"idea:seed", "story:genre", "style:visual_language",
      "technique:camera", "delivery:export">>

\* edges = [...] of default_graph
default_edges ==
    << Edge("idea:seed", "story:genre", None),
       Edge("story:genre", "style:visual_language", None),
       Edge("style:visual_language", "technique:camera", None),
       Edge("technique:camera", "delivery:export", CameraIsNotNone),
       Edge("style:visual_language", "delivery:export", StyleIsNotNone) >>

\* Faulty variant: the last edge names a node id that is not in the node mapping.
default_graph_typo ==
    PromptGraph(default_nodes, default_node_order,
                [default_edges EXCEPT ![5].target = "delivery:exports"],
                "idea:seed")

default_graph ==
    PromptGraph(default_nodes, default_node_order, default_edges, "idea:seed")

(***************************************************************************)
(* PromptGraph.next_nodes                                                  *)
(***************************************************************************)

\* The outcome of a call: a returned value, or an exception that reached
\* the caller.
Return(value) == [raised |-> FALSE, value |-> value]
Raise == [raised |-> TRUE, value |-> <<>>]

\* The list comprehension of next_nodes from edge i on, acc being the list
\* built so far; self.nodes[edge.target] raises KeyError on a missing key.
RECURSIVE next_nodes_from(_, _, _, _, _)
next_nodes_from(self, i, acc, node_id, ctx) ==
    IF i > Len(self.edges) THEN Return(acc)
    ELSE LET edge == self.edges[i]
         IN IF edge.source = node_id
               /\ (edge.condition = None \/ eval_condition(edge.condition, ctx))
            THEN IF edge.target \in DOMAIN self.nodes
                 THEN next_nodes_from(self, i + 1,
                                      Append(acc, self.nodes[edge.target]),
                                      node_id, ctx)
                 ELSE Raise
            ELSE next_nodes_from(self, i + 1, acc, node_id, ctx)

\* Faulty variant: an edge whose target is not in the node mapping is
\* skipped (self.nodes.get) instead of faulting.
next_nodes_skip_missing(self, node_id, ctx) ==
    LET found == next_nodes_from(
                   [self EXCEPT !.edges =
                      SelectSeq(self.edges,
                                LAMBDA e : e.target \in DOMAIN self.nodes)],
                   1, <<>>, node_id, ctx)
    IN found

\* Faulty variant: the nodes are collected by walking the node mapping, keeping
\* those some eligible edge points at.
next_nodes_by_node_order(self, node_id, ctx) ==
    LET hit(n) == \E i \in DOMAIN self.edges :
                     /\ self.edges[i].source = node_id
                     /\ self.edges[i].target = n
                     /\ \/ self.edges[i].condition = None
                        \/ eval_condition(self.edges[i].condition, ctx)
    IN Return([k \in 1..Len(SelectSeq(self.node_order, hit)) |->
                 self.nodes[SelectSeq(self.node_order, hit)[k]]])

next_nodes(self, node_id, ctx) == next_nodes_from(self, 1, <<>>, node_id, ctx)

(***************************************************************************)
(* Transforms and GraphContext.store_answer                                *)
(***************************************************************************)

\* Transform = Callable[[Dict[str, str], GraphContext], Dict[str, str]].
\* The callables a graph may carry are drawn from four kinds:
\*   strip_null      drops the fields whose value is None (payload only)
\*   tag_preset      sets field "preset" to context.preset (reads preset)
\*   count_answers   sets field "seq" to str(len(context.answers))
\*                   (reads the stored answers)
\*   require_camera  returns payload["camera"]-checked payload: raises
\*                   KeyError when the payload has no "camera" field
apply_transform(transform, payload, ctx) ==
    CASE transform = "strip_null" ->
           Return([k \in {f \in DOMAIN payload : payload[f] # None} |->
                     payload[k]])
      [] transform = "tag_preset" ->
           Return(dict_set(payload, "preset", ctx.preset))
      [] transform = "count_answers" ->
           Return(dict_set(payload, "seq",
                           str(Cardinality(DOMAIN ctx.answers))))
      [] transform = "require_camera" ->
           IF "camera" \in DOMAIN payload THEN Return(payload) ELSE Raise

\* The for loop of store_answer from transform i on; enriched is the
\* running payload.  A raising transform ends the loop and the call.
RECURSIVE run_transforms(_, _, _, _)
run_transforms(transforms, i, enriched, ctx) ==
    IF i > Len(transforms) THEN Return(enriched)
    ELSE LET r == apply_transform(transforms[i], enriched, ctx)
         IN IF r.raised THEN Raise
            ELSE run_transforms(transforms, i + 1, r.value, ctx)

\* Faulty variant: the new answer is merged into the stored one
\* (dict.update) instead of replacing it.
store_answer_merge(self, node, payload) ==
    LET r == run_transforms(node.transforms, 1, payload, self)
        prior == dict_get(self.answers, node.id, EmptyMap)
        merged == [k \in DOMAIN prior \cup DOMAIN r.value |->
                     IF k \in DOMAIN r.value THEN r.value[k] ELSE prior[k]]
    IN IF r.raised
       THEN [raised |-> TRUE, context |-> self]
       ELSE [raised |-> FALSE,
             context |-> GraphContext(dict_set(self.answers, node.id, merged),
                                      self.preset)]

\* Faulty variant: the stored answer also counts, in field "seq", the
\* answers stored for the node before it.
store_answer_counting(self, node, payload) ==
    LET r == run_transforms(node.transforms, 1, payload, self)
        prior == dict_get(self.answers, node.id, EmptyMap)
        seq == IF node.id \notin DOMAIN self.answers THEN "0"
               ELSE IF dict_get(prior, "seq", "0") = "0" THEN "1" ELSE "2"
    IN IF r.raised
       THEN [raised |-> TRUE, context |-> self]
       ELSE [raised |-> FALSE,
             context |-> GraphContext(
                 dict_set(self.answers, node.id,
                          dict_set(r.value, "seq", seq)),
                 self.preset)]

\* Faulty variant: the payload is stored before the transforms run, so
\* that a failing transform leaves the raw payload behind.
store_answer_partial(self, node, payload) ==
    LET r == run_transforms(node.transforms, 1, payload, self)
    IN IF r.raised
       THEN [raised |-> TRUE,
             context |-> GraphContext(dict_set(self.answers, node.id, payload),
                                      self.preset)]
       ELSE [raised |-> FALSE,
             context |-> GraphContext(dict_set(self.answers, node.id, r.value),
                                      self.preset)]

\* Faulty variant: an empty answer removes the node's entry instead of
\* being stored.
store_answer_drop_empty(self, node, payload) ==
    LET r == run_transforms(node.transforms, 1, payload, self)
    IN IF r.raised
       THEN [raised |-> TRUE, context |-> self]
       ELSE IF r.value = EmptyMap
       THEN [raised |-> FALSE,
             context |-> GraphContext(
                 [k \in DOMAIN self.answers \ {node.id} |-> self.answers[k]],
                 self.preset)]
       ELSE [raised |-> FALSE,
             context |-> GraphContext(dict_set(self.answers, node.id, r.value),
                                      self.preset)]

\* Faulty variant: the answers are rebuilt around the new entry
\* (self.answers = {node.id: enriched}), dropping the other stages'.
store_answer_reset(self, node, payload) ==
    LET r == run_transforms(node.transforms, 1, payload, self)
    IN IF r.raised
       THEN [raised |-> TRUE, context |-> self]
       ELSE [raised |-> FALSE,
             context |-> GraphContext(dict_set(EmptyMap, node.id, r.value),
                                      self.preset)]

\* store_answer(self, node, payload): the context after the call, and
\* whether the call raised.
store_answer(self, node, payload) ==
    LET r == run_transforms(node.transforms, 1, payload, self)
    IN IF r.raised
       THEN [raised |-> TRUE, context |-> self]
       ELSE [raised |-> FALSE,
             context |-> GraphContext(dict_set(self.answers, node.id, r.value),
                                      self.preset)]

(***************************************************************************)
(* Inputs                                                                  *)
(***************************************************************************)

\* A graph whose nodes carry transforms, whose edges are declared in an
\* order different from the node mapping's, and with two edges between the
\* same pair of nodes.
pipeline_graph ==
    LET nodes ==
          [n \in {"style:visual_language", "technique:camera",
                  "delivery:export"} |->
             CASE n = "style:visual_language" ->
                    Node("style:visual_language", "style", "style",
                         <<"visual_style">>, None,
                         <<"tag_preset", "strip_null">>)
               [] n = "technique:camera" ->
                    Node("technique:camera", "technique", "technique",
                         <<"camera", "lens">>, "camera",
                         <<"strip_null", "count_answers">>)
               [] n = "delivery:export" ->
                    Node("delivery:export", "delivery", "delivery",
                         <<"camera">>, None,
                         <<"strip_null", "require_camera", "tag_preset">>)]
        edges ==
          << Edge("style:visual_language", "delivery:export", StyleIsNotNone),
             Edge("style:visual_language", "technique:camera", None),
             Edge("style:visual_language", "delivery:export", None),
             Edge("technique:camera", "delivery:export", CameraIsNotNone),
             Edge("delivery:export", "style:visual_language", None) >>
    IN PromptGraph(nodes,
                   <<"style:visual_language", "technique:camera",
                     "delivery:export">>,
                   edges, "style:visual_language")

\* A graph one of whose edges names a node that is not in the node mapping.
dangling_graph ==
    LET nodes ==
          [n \in {"idea:seed", "style:visual_language"} |->
             CASE n = "idea:seed" ->
                    Node("idea:seed", "idea", "idea", <<"concept">>,
                         "concept", <<>>)
               [] n = "style:visual_language" ->
                    Node("style:visual_language", "style", "style",
                         <<"visual_style">>, None, <<"strip_null">>)]
        edges ==
          << Edge("idea:seed", "style:visual_language", None),
             Edge("style:visual_language", "idea:seed", None),
             Edge("style:visual_language", "story:genre", StyleIsNotNone) >>
    IN PromptGraph(nodes, <<"idea:seed", "style:visual_language">>,
                   edges, "idea:seed")

Graphs == {default_graph, pipeline_graph, dangling_graph}

Presets == {None, "cinematic"}

\* The payloads handed to store_answer.
Payloads ==
    { EmptyMap,
      [camera |-> None],
      [camera |-> ""],
      [camera |-> "35mm"],
      [lens |-> "50mm"] }

\* The node ids handed to next_nodes: the graph's own and the ids its edges
\* name.
NodeIds(g) ==
    DOMAIN g.nodes \cup {g.edges[i].target : i \in DOMAIN g.edges}

(***************************************************************************)
(* The main window (src/ui/main_window.py)                                 *)
(*                                                                         *)
(* A window is a record of what its widgets hold.  Rows of the list widget *)
(* are counted from 0 as in the source, -1 being "no current row"; stage   *)
(* k of a list is element k + 1 of the sequence.  The locale files are not *)
(* part of the source: the string Translator.get returns is represented by *)
(* the language and the path that select it, and a string that is not      *)
(* translated by a one-element tuple.                                      *)
(***************************************************************************)

\* --lang choices
Languages == {"ru", "en"}

\* Translator(language)
Translator(language) == [language |-> language]

\* Translator.get(path)
get(translator, path) == <<translator.language, path>>

\* StageEntry(node_id, label, status, description, collects)
StageEntry(node_id, label, status, description, collects) ==
    [node_id |-> node_id, label |-> label, status |-> status,
     description |-> description, collects |-> collects]

\* MainWindow._stage_label_map
stage_label_map(translator) ==
    [n \in {"idea:seed", "story:genre", "style:visual_language",
            "technique:camera", "delivery:export"} |->
       CASE n = "idea:seed" -> get(translator, "canvas.idea_seed")
         [] n = "story:genre" -> get(translator, "canvas.story_genre")
         [] n = "style:visual_language" -> get(translator, "canvas.style_visual")
         [] n = "technique:camera" -> get(translator, "canvas.technique_camera")
         [] n = "delivery:export" -> get(translator, "canvas.delivery_export")]

\* MainWindow._build_stage_entries: one pending entry per item of
\* graph.nodes, in the mapping's order.
build_stage_entries(g, translator) ==
    [k \in 1..Len(g.node_order) |->
       LET node_id == g.node_order[k]
           node == g.nodes[node_id]
       IN StageEntry(node_id,
                     dict_get(stage_label_map(translator), node_id,
                              <<node_id>>),
                     get(translator, "sidebar.pending"),
                     node.prompt_template, node.collects)]

\* StageSidebar._format_stage_label: f"{index + 1}. {label} . {status}"
format_stage_label(index, stage) == <<index + 1, stage.label, stage.status>>

\* StageSidebar._populate_list: one item per stage, its text and its
\* Qt.UserRole data.
populate_list(stages) ==
    [k \in 1..Len(stages) |->
       [text |-> format_stage_label(k - 1, stages[k]),
        data |-> stages[k].node_id]]

\* StageSidebar.update_stages
update_stages(sidebar, stages) ==
    [sidebar EXCEPT
       !.stages = stages,
       !.items = [k \in 1..Len(sidebar.items) |->
                    [sidebar.items[k] EXCEPT
                       !.text = format_stage_label(k - 1, stages[k])]]]

\* StageSidebar._update_progress: the progress template filled with
\* current and total.
update_progress(sidebar, index) ==
    [sidebar EXCEPT
       !.progress = <<get(sidebar.translator, "sidebar.progress"),
                      index + 1, Len(sidebar.stages)>>]

\* CanvasView._render_collects: one chip per field, its text being
\* field.replace("_", " ").title().
render_collects(collects) ==
    [k \in 1..Len(collects) |-> <<"title", collects[k]>>]

\* CanvasView.update_stage
update_stage(canvas, stage) ==
    [canvas EXCEPT !.title_label = stage.label,
                   !.template_body = stage.description,
                   !.chips = render_collects(stage.collects)]

\* The 0-based index of the first stage with the node id, or 0:
\* next((index for index, stage in enumerate(stages) if ...), 0)
target_index(stages, node_id) ==
    IF \E k \in 1..Len(stages) : stages[k].node_id = node_id
    THEN (CHOOSE k \in 1..Len(stages) :
            /\ stages[k].node_id = node_id
            /\ \A j \in 1..(k - 1) : stages[j].node_id # node_id) - 1
    ELSE 0

\* Faulty variant: only the selected stage is given a new status; the
\* other stages keep the status earlier selections gave them.
handle_stage_selected_keeping(w, node_id) ==
    LET target == target_index(w.stages, node_id)
        updated ==
          [k \in 1..Len(w.stages) |->
             IF k - 1 = target
             THEN [w.stages[k] EXCEPT
                     !.status = get(w.translator, "sidebar.active")]
             ELSE w.stages[k]]
    IN [w EXCEPT !.stages = updated,
                 !.sidebar = update_stages(w.sidebar, updated),
                 !.canvas = update_stage(w.canvas, updated[target + 1])]

\* MainWindow._handle_stage_selected
handle_stage_selected(w, node_id) ==
    LET target == target_index(w.stages, node_id)
        updated ==
          [k \in 1..Len(w.stages) |->
             LET stage == w.stages[k]
                 status ==
                   IF k - 1 < target
                   THEN get(w.translator, "sidebar.completed")
                   ELSE IF k - 1 = target
                   THEN get(w.translator, "sidebar.active")
                   ELSE get(w.translator, "sidebar.pending")
             IN StageEntry(stage.node_id, stage.label, status,
                           stage.description, stage.collects)]
    IN [w EXCEPT !.stages = updated,
                 !.sidebar = update_stages(w.sidebar, updated),
                 !.canvas = update_stage(w.canvas, updated[target + 1])]

\* StageSidebar._handle_selection, the slot of currentItemChanged, for the
\* item of row `row` having become the current one: stage_selected is
\* emitted, which runs MainWindow._handle_stage_selected, and the progress
\* label is updated.
handle_selection(w, row) ==
    LET current == [w EXCEPT !.sidebar.current_row = row]
        handled == handle_stage_selected(current,
                                         current.sidebar.items[row + 1].data)
    IN [handled EXCEPT !.sidebar = update_progress(handled.sidebar, row)]

\* The 0-based row of the first item whose data is node_id, or -1.
row_of(sidebar, node_id) ==
    IF \E k \in 1..Len(sidebar.items) : sidebar.items[k].data = node_id
    THEN (CHOOSE k \in 1..Len(sidebar.items) :
            /\ sidebar.items[k].data = node_id
            /\ \A j \in 1..(k - 1) : sidebar.items[j].data # node_id) - 1
    ELSE -1

\* StageSidebar.select_stage: setCurrentRow on the first matching row, which
\* emits currentItemChanged when the current row changes, then
\* _update_progress.
select_stage(w, node_id) ==
    LET row == row_of(w.sidebar, node_id)
        changed == IF row # w.sidebar.current_row
                   THEN handle_selection(w, row) ELSE w
    IN IF row = -1 THEN w
       ELSE [changed EXCEPT !.sidebar = update_progress(changed.sidebar, row)]

\* MainWindow(graph, translator): __init__ and _setup_layout, ending with
\* the selection of the first stage.
MainWindow(g, translator) ==
    LET stages == build_stage_entries(g, translator)
        sidebar == [translator |-> translator, stages |-> stages,
                    items |-> populate_list(stages), current_row |-> -1,
                    progress |-> <<>>]
        canvas == [title_label |-> stages[1].label,
                   template_body |-> stages[1].description,
                   chips |-> render_collects(stages[1].collects)]
        w == [translator |-> translator, stages |-> stages,
              sidebar |-> sidebar, canvas |-> canvas]
    IN select_stage(w, stages[1].node_id)

\* No window: the prompt graph used on its own.
NoWindow == [translator |-> Translator("ru"), stages |-> <<>>]

(***************************************************************************)
(* State machine                                                           *)
(***************************************************************************)

\* last records the most recent call: its arguments, the answers before it,
\* its outcome, and (again) whether it repeats an earlier call: for
\* store_answer the call before it, which returned, with the same node and
\* payload; for next_nodes the most recent next_nodes call, with the same
\* node id on the same context.  nn is the most recent next_nodes call with
\* the context it saw.
NoCall == [op |-> "none", node_id |-> None, payload |-> EmptyMap,
           before |-> EmptyMap, raised |-> FALSE, value |-> <<>>,
           again |-> FALSE,
           nn |-> [node_id |-> None, context |-> GraphContext(EmptyMap, None),
                   raised |-> FALSE, value |-> <<>>]]

Init ==
    /\ graph \in Graphs
    /\ \E preset \in Presets : context = GraphContext(EmptyMap, preset)
    /\ last = NoCall
    /\ calls = 0
    /\ window = NoWindow
    /\ selected = <<>>

\* Faulty variant: resolving the next nodes creates an empty answer for
\* the node asked about (answers.setdefault(node_id, {})).
NextNodesSetdefault(node_id) ==
    /\ calls < MaxCalls
    /\ LET r == next_nodes(graph, node_id, context)
       IN last' = [op |-> "next_nodes", node_id |-> node_id,
                   payload |-> EmptyMap, before |-> context.answers,
                   raised |-> r.raised, value |-> r.value,
                   again |-> /\ last.nn.node_id = node_id
                             /\ last.nn.context = context,
                   nn |-> [node_id |-> node_id, context |-> context,
                           raised |-> r.raised, value |-> r.value]]
    /\ context' = GraphContext(
           IF node_id \in DOMAIN context.answers THEN context.answers
           ELSE dict_set(context.answers, node_id, EmptyMap),
           context.preset)
    /\ calls' = calls + 1
    /\ UNCHANGED <<graph, window, selected>>

\* graph.next_nodes(node_id, context)
NextNodes(node_id) ==
    /\ calls < MaxCalls
    /\ LET r == next_nodes(graph, node_id, context)
       IN last' = [op |-> "next_nodes", node_id |-> node_id,
                   payload |-> EmptyMap, before |-> context.answers,
                   raised |-> r.raised, value |-> r.value,
                   again |-> /\ last.nn.node_id = node_id
                             /\ last.nn.context = context,
                   nn |-> [node_id |-> node_id, context |-> context,
                           raised |-> r.raised, value |-> r.value]]
    /\ calls' = calls + 1
    /\ UNCHANGED <<graph, context, window, selected>>

\* context.store_answer(graph.nodes[node_id], payload)
StoreAnswer(node_id, payload) ==
    /\ calls < MaxCalls
    /\ LET r == store_answer(context, graph.nodes[node_id], payload)
       IN /\ context' = r.context
          /\ last' = [op |-> "store_answer", node_id |-> node_id,
                      payload |-> payload, before |-> context.answers,
                      raised |-> r.raised, value |-> <<>>,
                      again |-> /\ last.op = "store_answer"
                                /\ ~last.raised
                                /\ last.node_id = node_id
                                /\ last.payload = payload,
                      nn |-> last.nn]
    /\ calls' = calls + 1
    /\ UNCHANGED <<graph, window, selected>>

Next ==
    \/ \E node_id \in NodeIds(graph) : NextNodes(node_id)
    \/ \E node_id \in DOMAIN graph.nodes, payload \in Payloads :
          StoreAnswer(node_id, payload)

Spec == Init /\ [][Next]_vars

(***************************************************************************)
(* The application: a main window on a graph (src/app.py main)             *)
(***************************************************************************)

\* The node ids a stage_selected signal carries: those of the stages and
\* one no stage has.
SignalIds(g) == DOMAIN g.nodes \cup {"review:final"}

\* window = MainWindow(graph, translator)
UIInit ==
    /\ graph \in Graphs
    /\ context = GraphContext(EmptyMap, None)
    /\ last = NoCall
    /\ calls = 0
    /\ \E language \in Languages :
          window = MainWindow(graph, Translator(language))
    /\ selected = <<graph.node_order[1]>>

\* The user makes the item of row `row` the current one of the stage list.
HandleSelection(row) ==
    /\ Len(selected) < MaxSelections
    /\ row # window.sidebar.current_row
    /\ window' = handle_selection(window, row)
    /\ selected' = Append(selected, window.sidebar.items[row + 1].data)
    /\ UNCHANGED <<graph, context, last, calls>>

\* sidebar.select_stage(node_id) for a node id whose row is not current.
SelectStage(node_id) ==
    /\ Len(selected) < MaxSelections
    /\ row_of(window.sidebar, node_id) # window.sidebar.current_row
    /\ window' = select_stage(window, node_id)
    /\ selected' = IF row_of(window.sidebar, node_id) = -1 THEN selected
                   ELSE Append(selected, node_id)
    /\ UNCHANGED <<graph, context, last, calls>>

\* stage_selected is emitted with node_id: _handle_stage_selected(node_id).
HandleStageSelected(node_id) ==
    /\ Len(selected) < MaxSelections
    /\ window' = handle_stage_selected(window, node_id)
    /\ selected' = Append(selected, node_id)
    /\ UNCHANGED <<graph, context, last, calls>>

UINext ==
    \/ \E row \in 0..(Len(window.stages) - 1) : HandleSelection(row)
    \/ \E node_id \in SignalIds(graph) : SelectStage(node_id)
    \/ \E node_id \in SignalIds(graph) : HandleStageSelected(node_id)

UISpec == UIInit /\ [][UINext]_vars

(***************************************************************************)
(* Properties                                                              *)
(***************************************************************************)

\* The ids of a sequence of nodes.
Ids(value) == [k \in DOMAIN value |-> value[k].id]

\* The positions, in the graph's edge list, of the edges a next_nodes call
\* on node_id has to follow in context ctx.
Eligible(g, node_id, ctx) ==
    {i \in DOMAIN g.edges :
        /\ g.edges[i].source = node_id
        /\ \/ g.edges[i].condition = None
           \/ eval_condition(g.edges[i].condition, ctx)}

\* The k-th smallest element of a set of positions.
Kth(S, k) == CHOOSE i \in S : Cardinality({j \in S : j <= i}) = k

\* The last call was next_nodes(node_id, ...) on default_graph.
AskedDefault(node_id) ==
    /\ graph = default_graph
    /\ last.op = "next_nodes"
    /\ last.node_id = node_id

\* C1: a next_nodes call whose eligible edges all name existing nodes
\* returns one node per eligible edge, the target of that edge, in the order
\* of the edge list; in default_graph with a style answer stored, the call
\* on style:visual_language returns technique:camera, delivery:export.
C1_NextNodesFollowsEdgeOrder ==
    last.op = "next_nodes" =>
        LET E == Eligible(graph, last.node_id, last.nn.context)
        IN /\ (\A i \in E : graph.edges[i].target \in DOMAIN graph.nodes) =>
                /\ ~last.raised
                /\ Len(last.value) = Cardinality(E)
                /\ \A k \in 1..Len(last.value) :
                      last.value[k] = graph.nodes[graph.edges[Kth(E, k)].target]
           /\ ( /\ AskedDefault("style:visual_language")
                /\ "style:visual_language" \in DOMAIN last.nn.context.answers )
              => Ids(last.value) = <<"technique:camera", "delivery:export">>

\* A call that returned three nodes, two of them through parallel edges, in
\* an order that is not the node mapping's.
C1_Witness ==
    /\ last.op = "next_nodes"
    /\ graph = pipeline_graph
    /\ Ids(last.value) =
         <<"delivery:export", "technique:camera", "delivery:export">>

\* C2: in default_graph, next_nodes("technique:camera", ctx) contains
\* delivery:export exactly when ctx.answers has an entry for
\* technique:camera with a camera key whose value is not None.
C2_CameraEdgeIffNonNull ==
    AskedDefault("technique:camera") =>
        LET answers == last.nn.context.answers
        IN (\E k \in DOMAIN last.value : last.value[k].id = "delivery:export")
           <=> /\ "technique:camera" \in DOMAIN answers
               /\ "camera" \in DOMAIN answers["technique:camera"]
               /\ answers["technique:camera"]["camera"] # None

\* The call excluded delivery:export although the technique stage has an
\* answer with a camera key: its value is None.
C2_Witness ==
    /\ AskedDefault("technique:camera")
    /\ "technique:camera" \in DOMAIN context.answers
    /\ "camera" \in DOMAIN context.answers["technique:camera"]
    /\ last.value = <<>>

\* C3: in default_graph, next_nodes("style:visual_language", ctx) contains
\* delivery:export exactly when style:visual_language is a key of
\* ctx.answers, whatever the stored answer.
C3_StyleEdgeIffKeyPresent ==
    AskedDefault("style:visual_language") =>
        ( (\E k \in DOMAIN last.value : last.value[k].id = "delivery:export")
          <=> "style:visual_language" \in DOMAIN last.nn.context.answers )

\* The call included delivery:export on an empty stored style answer.
C3_Witness ==
    /\ AskedDefault("style:visual_language")
    /\ "style:visual_language" \in DOMAIN context.answers
    /\ context.answers["style:visual_language"] = EmptyMap
    /\ \E k \in DOMAIN last.value : last.value[k].id = "delivery:export"

\* The call on technique:camera returned delivery:export.
CameraEdgeTaken ==
    /\ AskedDefault("technique:camera")
    /\ \E k \in DOMAIN last.value : last.value[k].id = "delivery:export"

\* C4 as stated: whenever next_nodes("technique:camera", ctx) contains
\* delivery:export in default_graph, the stored camera field is truthy.
C4_CameraTruthy ==
    CameraEdgeTaken =>
        /\ "technique:camera" \in DOMAIN last.nn.context.answers
        /\ "camera" \in DOMAIN last.nn.context.answers["technique:camera"]
        /\ truthy(last.nn.context.answers["technique:camera"]["camera"])

\* C4 amended: whenever next_nodes("technique:camera", ctx) contains
\* delivery:export in default_graph, the technique stage's stored answer has
\* a camera field whose value is not None (it may be the empty string).
C4_CameraNotNone ==
    CameraEdgeTaken =>
        /\ "technique:camera" \in DOMAIN last.nn.context.answers
        /\ "camera" \in DOMAIN last.nn.context.answers["technique:camera"]
        /\ last.nn.context.answers["technique:camera"]["camera"] # None

\* The edge was taken on a non-empty camera value.
C4_Witness ==
    /\ CameraEdgeTaken
    /\ context.answers["technique:camera"]["camera"] = "35mm"

\* The last call was a store_answer that returned.
Stored == last.op = "store_answer" /\ ~last.raised

\* The context a store_answer call was made on.
ContextBefore == GraphContext(last.before, context.preset)

\* transforms applied in declared order to payload: the last transform
\* applied to the result of those before it.
RECURSIVE Composed(_, _, _)
Composed(transforms, payload, ctx) ==
    IF transforms = <<>> THEN Return(payload)
    ELSE LET front == Composed(SubSeq(transforms, 1, Len(transforms) - 1),
                               payload, ctx)
         IN IF front.raised THEN Raise
            ELSE apply_transform(transforms[Len(transforms)], front.value, ctx)

\* C5: after store_answer(node, payload) returns, context.answers[node.id]
\* is exactly the node's transforms applied in declared order to payload;
\* no field of the earlier answer survives unless the new result has it.
C5_StoreReplaces ==
    Stored =>
        LET expected == Composed(graph.nodes[last.node_id].transforms,
                                 last.payload, ContextBefore)
            prior == dict_get(last.before, last.node_id, EmptyMap)
        IN /\ ~expected.raised
           /\ last.node_id \in DOMAIN context.answers
           /\ context.answers[last.node_id] = expected.value
           /\ \A f \in DOMAIN prior \ DOMAIN expected.value :
                 f \notin DOMAIN context.answers[last.node_id]

\* A node with two transforms was answered again, and a field of its
\* earlier answer is gone.
C5_Witness ==
    /\ Stored
    /\ Len(graph.nodes[last.node_id].transforms) >= 2
    /\ last.node_id \in DOMAIN last.before
    /\ DOMAIN last.before[last.node_id]
         \ DOMAIN context.answers[last.node_id] # {}

\* C6 as stated: a store_answer call that repeats the call before it (same
\* node, same payload) leaves the node's answer as that call left it.
C6_StoreTwiceSame ==
    (last.op = "store_answer" /\ last.again) =>
        /\ last.node_id \in DOMAIN context.answers
        /\ context.answers[last.node_id] = last.before[last.node_id]

\* The transform reads context.answers.
reads_answers(transform) == transform = "count_answers"

\* C6 amended: for a node none of whose transforms reads context.answers
\* (they depend on the payload and context.preset only), a store_answer
\* call that repeats the call before it leaves the node's answer as that
\* call left it.
C6_StoreTwiceSameUnlessAnswersRead ==
    ( /\ last.op = "store_answer"
      /\ last.again
      /\ \A i \in DOMAIN graph.nodes[last.node_id].transforms :
            ~reads_answers(graph.nodes[last.node_id].transforms[i]) ) =>
        /\ last.node_id \in DOMAIN context.answers
        /\ context.answers[last.node_id] = last.before[last.node_id]

\* A repeated call on a node whose transforms read the context's preset.
C6_Witness ==
    /\ last.op = "store_answer"
    /\ last.again
    /\ \E i \in DOMAIN graph.nodes[last.node_id].transforms :
          graph.nodes[last.node_id].transforms[i] = "tag_preset"
    /\ "preset" \in DOMAIN context.answers[last.node_id]

\* C7: when a transform of the node fails, store_answer raises and the
\* node's entry in context.answers (or its absence) is as before the call.
C7_FailedStoreCommitsNothing ==
    ( /\ last.op = "store_answer"
      /\ Composed(graph.nodes[last.node_id].transforms, last.payload,
                  ContextBefore).raised ) =>
        /\ last.raised
        /\ last.node_id \in DOMAIN context.answers
             <=> last.node_id \in DOMAIN last.before
        /\ last.node_id \in DOMAIN last.before =>
             context.answers[last.node_id] = last.before[last.node_id]

\* A store_answer call raised on a node that had an answer stored.
C7_Witness ==
    /\ last.op = "store_answer"
    /\ last.raised
    /\ last.node_id \in DOMAIN last.before
    /\ last.payload # EmptyMap

\* C8: a next_nodes call leaves the context and the graph unchanged, and
\* returns what the most recent next_nodes call returned if that call was
\* for the same node id on the same context.
C8_NextNodesPure ==
    [][ last'.op = "next_nodes" =>
          /\ context' = context
          /\ graph' = graph
          /\ (last.nn.node_id = last'.node_id /\ last.nn.context = context) =>
                /\ last'.value = last.nn.value
                /\ last'.raised = last.nn.raised ]_vars

\* next_nodes was called again for the node id and on the context of the
\* next_nodes call before it, with answers stored, and returned nodes.
C8_Witness ==
    /\ last.op = "next_nodes"
    /\ last.again
    /\ last.value # <<>>
    /\ context.answers # EmptyMap

\* C9: no call removes a key of context.answers, and a store_answer call
\* that returns leaves its node's id among the keys.
C9_AnswerKeysGrow ==
    [][ /\ DOMAIN context.answers \subseteq DOMAIN context'.answers
        /\ (last'.op = "store_answer" /\ ~last'.raised) =>
              last'.node_id \in DOMAIN context'.answers ]_vars

\* Two stages are answered, the last one with an empty answer.
C9_Witness ==
    /\ Stored
    /\ Cardinality(DOMAIN context.answers) >= 2
    /\ context.answers[last.node_id] = EmptyMap

\* C10: default_graph has the five nodes idea:seed, story:genre,
\* style:visual_language, technique:camera and delivery:export, each keyed
\* by its id, and five edges; its entrypoint idea:seed and both ends of
\* every edge are keys of the node mapping.
C10_DefaultGraphConsistent ==
    graph = default_graph =>
        /\ DOMAIN graph.nodes =
             {"idea:seed", "story:genre", "style:visual_language",
              "technique:camera", "delivery:export"}
        /\ \A n \in DOMAIN graph.nodes : graph.nodes[n].id = n
        /\ Len(graph.edges) = 5
        /\ graph.entrypoint = "idea:seed"
        /\ graph.entrypoint \in DOMAIN graph.nodes
        /\ \A i \in DOMAIN graph.edges :
              /\ graph.edges[i].source \in DOMAIN graph.nodes
              /\ graph.edges[i].target \in DOMAIN graph.nodes

\* default_graph is in use and both edges out of its style stage were followed.
C10_Witness ==
    /\ graph = default_graph
    /\ last.op = "next_nodes"
    /\ last.node_id = "style:visual_language"
    /\ Len(last.value) = 2

\* C11: a next_nodes call that has to follow an edge whose target is not a
\* key of the node mapping ends in a lookup fault and returns no nodes; such
\* a graph is constructed and used without being rejected.
C11_DanglingTargetFaults ==
    ( /\ last.op = "next_nodes"
      /\ \E i \in Eligible(graph, last.node_id, last.nn.context) :
            graph.edges[i].target \notin DOMAIN graph.nodes ) =>
        /\ last.raised
        /\ last.value = <<>>

\* The call faulted on the conditional edge to the missing node, after an
\* unconditional edge from the same source had resolved.
C11_Witness ==
    /\ graph = dangling_graph
    /\ last.op = "next_nodes"
    /\ last.node_id = "style:visual_language"
    /\ "style:visual_language" \in DOMAIN context.answers
    /\ last.raised

\* C12: a store_answer call, returning or raising, leaves the context's
\* preset and the entry (or absence) of every node id other than its node's
\* as they were.
C12_StoreTouchesOnlyItsNode ==
    [][ last'.op = "store_answer" =>
          /\ context'.preset = context.preset
          /\ \A k \in (DOMAIN context.answers \cup DOMAIN context'.answers)
                        \ {last'.node_id} :
                /\ k \in DOMAIN context.answers
                /\ k \in DOMAIN context'.answers
                /\ context'.answers[k] = context.answers[k] ]_vars

\* A stage was answered on a context with a preset and another stage's
\* answer, which is still there.
C12_Witness ==
    /\ Stored
    /\ context.preset # None
    /\ \E k \in DOMAIN last.before :
          /\ k # last.node_id
          /\ last.before[k] # EmptyMap
          /\ context.answers[k] = last.before[k]
    /\ last.node_id \notin DOMAIN last.before

\* The position, in the stage list, of the stage a selection of node_id
\* makes active: the stage with that node id, the first stage if there is
\* none.
ActivePosition(node_id) ==
    IF \E k \in 1..Len(graph.node_order) : graph.node_order[k] = node_id
    THEN CHOOSE k \in 1..Len(graph.node_order) : graph.node_order[k] = node_id
    ELSE 1

\* C13: after any sequence of stage selections the stage list has the node
\* ids of the graph's node mapping in its order, and exactly one stage is
\* active, the one the latest selection names (the first if it names none);
\* the stages before it are completed and those after it pending, whatever
\* was selected earlier.
C13_StagesFollowLatestSelection ==
    LET stages == window.stages
        t == ActivePosition(selected[Len(selected)])
        status(path) == get(window.translator, path)
    IN /\ Len(stages) = Len(graph.node_order)
       /\ \A k \in 1..Len(stages) : stages[k].node_id = graph.node_order[k]
       /\ Cardinality({k \in 1..Len(stages) :
                         stages[k].status = status("sidebar.active")}) = 1
       /\ \A k \in 1..Len(stages) :
             stages[k].status =
               IF k < t THEN status("sidebar.completed")
               ELSE IF k = t THEN status("sidebar.active")
               ELSE status("sidebar.pending")

\* After a later stage had been selected, an earlier one, not the first,
\* was selected, and then a node id no stage has.
C13_Witness ==
    /\ graph = default_graph
    /\ Len(selected) >= 4
    /\ ActivePosition(selected[Len(selected) - 1]) > 1
    /\ ActivePosition(selected[Len(selected) - 2])
         > ActivePosition(selected[Len(selected) - 1])
    /\ selected[Len(selected)] \notin DOMAIN graph.nodes
    /\ window.sidebar.current_row > 0

====
